---------------------------- MODULE Spec2Model ----------------------------
(***************************************************************************)
(* A model of knip's configuration resolution:                             *)
(*   - ConfigurationChief.setWorkspaces (package discovery, the package    *)
(*     graph, determineIncludedWorkspaces and its dependents walk),        *)
(*   - util/get-included-issue-types.ts (the issue-type resolver),         *)
(*   - util/tag.ts (splitTags, shouldIgnore),                              *)
(*   - the per-workspace queries getWorkspaceConfig and                    *)
(*     getNegatedWorkspacePatterns of a resolved chief.                    *)
(* Strings that the code inspects character by character (workspace names, *)
(* directories, patterns) are sequences of one-character strings.          *)
(***************************************************************************)
EXTENDS Integers, Sequences, FiniteSets, TLC

VARIABLES
    \* ---- inputs of one run (fixed after construction) ----
    manifest,            \* root package.json: [name, deps, workspaces]
    packageJsons,        \* the package.json found in each matched directory
    rawConfig,           \* [workspaces: configured keys, ignoreWorkspaces]
    rawWorkspaceArg,     \* --workspace as typed
    isStrict,            \* --strict
    \* ---- ConfigurationChief fields ----
    ignoredWorkspacePatterns,
    workspacePackages,           \* Map<name, Package>
    workspacePackagesByName,     \* Map<pkgName, Package>
    additionalWorkspaceNames,
    availableWorkspaceNames,
    availableWorkspacePkgNames,
    availableWorkspaceDirs,
    packageGraph,
    includedWorkspaces,
    \* ---- locals of determineIncludedWorkspaces ----
    seen,
    workspaceDirsWithDependents,
    stack,               \* call stack of addDependents: frames [dir, rest]
    topIndex,            \* position of availableWorkspaceDirs.forEach
    visits,              \* number of addDependents invocations per directory
    \* ---- control ----
    pc,
    error,
    \* ---- issue-type resolver (getIncludedIssueTypes) ----
    cliArgs,
    options,
    report,
    \* ---- tag filter (util/tag.ts) ----
    tagArgs,             \* the tag expressions given on the CLI or in the config
    tags,                \* splitTags(tagArgs): <<include, exclude>>
    jsDocTags,           \* the JSDoc tags of one symbol
    ignored,             \* shouldIgnore(jsDocTags, tags)
    \* ---- per-workspace queries of a resolved chief ----
    queryName,                   \* the workspace name asked about
    workspaceConfig,             \* getWorkspaceConfig(queryName)
    negatedWorkspacePatterns     \* getNegatedWorkspacePatterns(queryName)

chiefVars == <<manifest, packageJsons, rawConfig, rawWorkspaceArg, isStrict,
               ignoredWorkspacePatterns, workspacePackages, workspacePackagesByName,
               additionalWorkspaceNames, availableWorkspaceNames,
               availableWorkspacePkgNames, availableWorkspaceDirs, packageGraph,
               includedWorkspaces>>
walkVars == <<seen, workspaceDirsWithDependents, stack, topIndex, visits>>
issueVars == <<cliArgs, options, report>>
tagVars == <<tagArgs, tags, jsDocTags, ignored>>
queryVars == <<queryName, workspaceConfig, negatedWorkspacePatterns>>
vars == <<chiefVars, walkVars, pc, error, issueVars, tagVars, queryVars>>

-----------------------------------------------------------------------------
(* Strings *)

Undefined == <<"<undefined>">>
EmptyString == <<>>

Truthy(s) == s # Undefined /\ s # EmptyString

StartsWith(s, prefix) ==
    Len(prefix) <= Len(s) /\ SubSeq(s, 1, Len(prefix)) = prefix

SeqToSet(s) == {s[i] : i \in 1..Len(s)}

Includes(s, x) == \E i \in 1..Len(s) : s[i] = x

RECURSIVE Filter(_, _)
Filter(s, keep) ==
    IF s = <<>> THEN <<>>
    ELSE (IF Head(s) \in keep THEN <<Head(s)>> ELSE <<>>) \o Filter(Tail(s), keep)

\* Array -> Set -> Array, keeping the first occurrence (new Set / Array.from)
RECURSIVE Dedupe(_)
Dedupe(s) ==
    IF s = <<>> THEN <<>>
    ELSE LET init == Dedupe(SubSeq(s, 1, Len(s) - 1))
             last == s[Len(s)]
         IN  IF Includes(init, last) THEN init ELSE Append(init, last)

Reverse(s) == [i \in 1..Len(s) |-> s[Len(s) + 1 - i]]

ROOT_WORKSPACE_NAME == <<".">>

\* path.join(cwd, name) for a relative name: "." names cwd itself
Join(cwd, name) ==
    IF name = ROOT_WORKSPACE_NAME \/ name = EmptyString THEN cwd
    ELSE cwd \o <<"/">> \o name

\* path.relative(cwd, dir) for a dir at or below cwd: "" for cwd itself
Relative(cwd, dir) ==
    IF dir = cwd THEN EmptyString
    ELSE IF StartsWith(dir, cwd \o <<"/">>) THEN SubSeq(dir, Len(cwd) + 2, Len(dir))
    ELSE dir

\* number of "/"-separated segments of a name
PathDepth(name) == 1 + Cardinality({i \in 1..Len(name) : name[i] = "/"})

\* Array.prototype.sort(byPathDepth): stable, ascending path depth
RECURSIVE InsertByPathDepth(_, _)
InsertByPathDepth(sorted, x) ==
    IF sorted = <<>> THEN <<x>>
    ELSE IF PathDepth(sorted[Len(sorted)]) <= PathDepth(x) THEN Append(sorted, x)
    ELSE Append(InsertByPathDepth(SubSeq(sorted, 1, Len(sorted) - 1), x),
                sorted[Len(sorted)])

RECURSIVE SortByPathDepth(_)
SortByPathDepth(s) ==
    IF s = <<>> THEN <<>>
    ELSE InsertByPathDepth(SortByPathDepth(SubSeq(s, 1, Len(s) - 1)), s[Len(s)])

\* picomatch.isMatch(name, patterns) for patterns without glob characters
IsMatch(name, patterns) ==
    name # EmptyString /\ \E i \in 1..Len(patterns) : patterns[i] = name

-----------------------------------------------------------------------------
(* Map<K, V>: a sequence of <<key, value>> pairs in insertion order *)

MapKeys(m) == [i \in 1..Len(m) |-> m[i][1]]
MapHas(m, k) == \E i \in 1..Len(m) : m[i][1] = k
MapGet(m, k) == m[CHOOSE i \in 1..Len(m) : m[i][1] = k][2]
\* Map.prototype.set: an existing key keeps its position and gets the new value
MapSet(m, k, v) ==
    IF MapHas(m, k)
    THEN [i \in 1..Len(m) |-> IF m[i][1] = k THEN <<k, v>> ELSE m[i]]
    ELSE Append(m, <<k, v>>)


-----------------------------------------------------------------------------
(* The environment of one run *)

Cwd == <<"/", "w">>

WsA == <<"a">>
WsAB == <<"a", "/", "b">>
WsC == <<"c">>
WsD == <<"d">>
WsZ == <<"z">>

PkgP == <<"p">>
PkgQ == <<"q">>
PkgR == <<"r">>
PkgNames == {PkgP, PkgQ, PkgR}

\* directories the workspace patterns of the root manifest can match, in glob order
DiskWorkspaceDirs == <<WsA, WsAB, WsC>>
\* directories that exist on disk (existsSync)
ExistingDirs == {ROOT_WORKSPACE_NAME, WsA, WsAB, WsC, WsD}
AllNames == ExistingDirs \cup {WsZ}
AllDirs == {Join(Cwd, n) : n \in AllNames}

NoManifest == [name |-> Undefined, deps |-> <<>>, found |-> FALSE]
Manifest(n, d) == [name |-> n, deps |-> d, found |-> TRUE]

\* the dependency fields of a manifest, as the list of their package names
DepLists == {<<>>} \cup {<<n>> : n \in PkgNames}

\* package.json#workspaces: none, or patterns matching every workspace directory
NoWorkspaces == <<>>
WorkspacePatterns == << <<"*">>, <<"a", "/", "*">> >>

\* the bound on the depth of the addDependents recursion the model explores
MaxStack == 6

-----------------------------------------------------------------------------
(* util/map-workspaces.ts *)

IsNegated(p) == Len(p) > 0 /\ p[1] = "!"

RECURSIVE StripBangs(_)
StripBangs(p) == IF IsNegated(p) THEN StripBangs(Tail(p)) ELSE p

NegatedPatterns(workspaces) ==
    Filter(workspaces, {p \in SeqToSet(workspaces) : IsNegated(p)})
Patterns(workspaces) ==
    Filter(workspaces, {p \in SeqToSet(workspaces) : ~IsNegated(p)})

\* fast-glob: the directories matched by the patterns, minus the ignored ones
\* (fast-glob reads an ignore entry "!x" as the pattern "x")
FastGlob(patterns, negatedPatterns) ==
    IF patterns = <<>> THEN <<>>
    ELSE LET ignore == [i \in 1..Len(negatedPatterns) |-> StripBangs(negatedPatterns[i])]
         IN  Filter(DiskWorkspaceDirs,
                    {n \in SeqToSet(DiskWorkspaceDirs) : ~IsMatch(n, ignore)})

GetPackageName(pkgJson, dir) == pkgJson.name

Package(dir, name, pkgName, pkgJson) ==
    [dir |-> dir, name |-> name, pkgName |-> pkgName, manifest |-> pkgJson]

NoError == [kind |-> "none", about |-> Undefined]
ConfigurationError(kind, about) == [kind |-> kind, about |-> about]

\* byPkgName.set(pkgName, pkg): the later package takes the name
SetByPkgName(byPkgName, pkgName, pkg) == MapSet(byPkgName, pkgName, pkg)

\* the loop over the matches: <<byPkgDir, byPkgName, error>>
RECURSIVE MapWorkspacesLoop(_, _, _, _)
MapWorkspacesLoop(names, jsons, byPkgDir, byPkgName) ==
    IF names = <<>> THEN <<byPkgDir, byPkgName, NoError>>
    ELSE LET name == Head(names)
             dir == Join(Cwd, name)
             pkgJson == jsons[name]
         IN  IF ~pkgJson.found
             THEN MapWorkspacesLoop(Tail(names), jsons, byPkgDir, byPkgName)
             ELSE LET pkgName == GetPackageName(pkgJson, dir)
                      pkg == Package(dir, name, pkgName, pkgJson)
                  IN  IF pkgName = Undefined
                      THEN <<MapSet(byPkgDir, name, pkg), byPkgName,
                             ConfigurationError("Missing package name", name)>>
                      ELSE MapWorkspacesLoop(Tail(names), jsons,
                                             MapSet(byPkgDir, name, pkg),
                                             SetByPkgName(byPkgName, pkgName, pkg))

mapWorkspaces(workspaces, jsons) ==
    IF Patterns(workspaces) = <<>> /\ NegatedPatterns(workspaces) = <<>>
    THEN <<<<>>, <<>>, NoError>>
    ELSE MapWorkspacesLoop(FastGlob(Patterns(workspaces), NegatedPatterns(workspaces)),
                           jsons, <<>>, <<>>)


-----------------------------------------------------------------------------
(* ConfigurationChief.ts: the helpers of setWorkspaces *)

\* const workspaceArg = rawWorkspaceArg ? toPosix(...).replace(/^\.\//, '')
\*                                                     .replace(/\/$/, '') : undefined
StripLeadingDotSlash(s) ==
    IF StartsWith(s, <<".", "/">>) THEN SubSeq(s, 3, Len(s)) ELSE s
StripTrailingSlash(s) ==
    IF Len(s) > 0 /\ s[Len(s)] = "/" THEN SubSeq(s, 1, Len(s) - 1) ELSE s
NormalizeWorkspaceArg(raw) ==
    IF Truthy(raw) THEN StripTrailingSlash(StripLeadingDotSlash(raw)) ELSE Undefined

workspaceArg == NormalizeWorkspaceArg(rawWorkspaceArg)

existsSync(name) == name \in ExistingDirs

getListedWorkspaces == manifest.workspaces

getIgnoredWorkspacePatterns ==
    LET negated == NegatedPatterns(getListedWorkspaces)
    IN  [i \in 1..Len(negated) |-> Tail(negated[i])] \o rawConfig.ignoreWorkspaces

\* the root package joins both maps; its name defaults to ROOT_WORKSPACE_NAME
RootPackage ==
    Package(Cwd, ROOT_WORKSPACE_NAME,
            IF manifest.name = Undefined THEN ROOT_WORKSPACE_NAME ELSE manifest.name,
            manifest)

getConfiguredWorkspaceKeys ==
    LET initialWorkspaces ==
            IF rawConfig.workspaces # Undefined THEN rawConfig.workspaces
            ELSE <<ROOT_WORKSPACE_NAME>>
    IN  Filter(initialWorkspaces,
               {k \in SeqToSet(initialWorkspaces) : ~Includes(rawConfig.ignoreWorkspaces, k)})

\* the configured keys of the model hold no "*": they are all directories
getAdditionalWorkspaceNames ==
    LET dirs == getConfiguredWorkspaceKeys
    IN  Dedupe(Filter(dirs, {name \in SeqToSet(dirs) :
                                /\ name # ROOT_WORKSPACE_NAME
                                /\ ~MapHas(workspacePackages, name)
                                /\ ~IsMatch(name, ignoredWorkspacePatterns)}))

\* a mutant of WithoutIgnored: the ignore patterns are not applied
WithoutIgnoredNothing(all) == all

\* .filter(name => !picomatch.isMatch(name, this.ignoredWorkspacePatterns))
WithoutIgnored(all) ==
    Filter(all, {name \in SeqToSet(all) : ~IsMatch(name, ignoredWorkspacePatterns)})

getAvailableWorkspaceNames(names) == WithoutIgnored(names \o additionalWorkspaceNames)

\* the loop of getAvailableWorkspacePkgNames: <<names, error>>
RECURSIVE AvailablePkgNamesLoop(_, _)
AvailablePkgNamesLoop(pkgNames, names) ==
    IF pkgNames = <<>> THEN <<names, NoError>>
    ELSE LET pkgName == Head(pkgNames)
         IN  IF Includes(names, pkgName)
             THEN <<names, ConfigurationError("Duplicate package name", pkgName)>>
             ELSE AvailablePkgNamesLoop(
                      Tail(pkgNames),
                      IF ~IsMatch(pkgName, ignoredWorkspacePatterns)
                      THEN Append(names, pkgName) ELSE names)

getAvailableWorkspacePkgNames(pkgNames) == AvailablePkgNamesLoop(pkgNames, <<>>)

\* Set.prototype.add on an insertion-ordered set
SetAdd(set, x) == IF Includes(set, x) THEN set ELSE Append(set, x)

\* createPkgGraph: every available package gets an entry; a package that depends
\* on a known package name is recorded under the directory that has that name
RECURSIVE AddDependencyEdges(_, _, _)
AddDependencyEdges(graph, pkg, deps) ==
    IF deps = <<>> THEN graph
    ELSE LET d == Head(deps)
             known == Includes(availableWorkspacePkgNames, d)
                      /\ MapHas(workspacePackagesByName, d)
             key == MapGet(workspacePackagesByName, d).dir
             old == IF MapHas(graph, key) THEN MapGet(graph, key) ELSE <<>>
         IN  AddDependencyEdges(
                 IF known THEN MapSet(graph, key, SetAdd(old, pkg.dir)) ELSE graph,
                 pkg, Tail(deps))

RECURSIVE PkgGraphLoop(_, _)
PkgGraphLoop(names, graph) ==
    IF names = <<>> THEN graph
    ELSE IF ~MapHas(workspacePackages, Head(names))
         THEN PkgGraphLoop(Tail(names), graph)
         ELSE LET pkg == MapGet(workspacePackages, Head(names))
                  g1 == IF MapHas(graph, pkg.dir) THEN graph
                        ELSE MapSet(graph, pkg.dir, <<>>)
              IN  PkgGraphLoop(Tail(names),
                               AddDependencyEdges(g1, pkg, pkg.manifest.deps))

createPkgGraph == PkgGraphLoop(availableWorkspaceNames, <<>>)


-----------------------------------------------------------------------------
(* ConfigurationChief.ts: determineIncludedWorkspaces *)

IsAncestor(name, ancestorName) ==
    /\ name # ancestorName
    /\ (ancestorName = ROOT_WORKSPACE_NAME \/ StartsWith(name, ancestorName \o <<"/">>))

\* this.availableWorkspaceNames.reduce(getAncestors(name), [])
getAncestors(name) ==
    Filter(availableWorkspaceNames,
           {a \in SeqToSet(availableWorkspaceNames) : IsAncestor(name, a)})

workspaceNames ==
    IF Truthy(workspaceArg) THEN Append(getAncestors(workspaceArg), workspaceArg)
    ELSE availableWorkspaceNames

initialWorkspaces == [i \in 1..Len(workspaceNames) |-> Join(Cwd, workspaceNames[i])]

\* a mutant of InitialDirsWithDependents: the set starts empty
InitialDirsWithDependentsEmpty == <<>>

\* const workspaceDirsWithDependents = new Set(initialWorkspaces)
InitialDirsWithDependents == Dedupe(initialWorkspaces)

\* relative(this.cwd, dir) || ROOT_WORKSPACE_NAME
DirToName(dir) ==
    IF Relative(Cwd, dir) = EmptyString THEN ROOT_WORKSPACE_NAME ELSE Relative(Cwd, dir)

Workspace(name) ==
    [name |-> name,
     pkgName |-> IF MapHas(workspacePackages, name)
                 THEN MapGet(workspacePackages, name).pkgName
                 ELSE <<"NOT_FOUND_">> \o name,
     dir |-> Join(Cwd, name),
     ancestors |-> getAncestors(name)]

\* Array.from(ws).sort(byPathDepth).map(name => Workspace)
ToWorkspaces(ws) ==
    LET sorted == SortByPathDepth(ws)
    IN  [i \in 1..Len(sorted) |-> Workspace(sorted[i])]

\* a mutant of StrictScope: the strict branch takes the ancestors along
StrictScopeWithAncestors == Dedupe(workspaceNames)

\* ws of the strict branch: ws.add(workspaceArg)
StrictScope == <<workspaceArg>>

\* ws of the branch without a selector
FullScope == Dedupe(workspaceNames)

\* ws after the walk: every directory of workspaceDirsWithDependents, as a name
WalkScope ==
    Dedupe([i \in 1..Len(workspaceDirsWithDependents) |->
                DirToName(workspaceDirsWithDependents[i])])

\* if (!graph[dir] || graph[dir].size === 0) return
HasNoDependents(dir) ==
    ~MapHas(packageGraph, dir) \/ Len(MapGet(packageGraph, dir)) = 0

\* initialWorkspaces.some(dir => dirs.has(dir))
TouchesInitialWorkspace(dirs) ==
    \E i \in 1..Len(initialWorkspaces) : Includes(dirs, initialWorkspaces[i])

\* a mutant of NotSeen: the recursion is not guarded
NotSeenUnguarded(dir) == TRUE

\* for (const dir of dirs) if (!seen.has(dir)) addDependents(dir)
NotSeen(dir) == dir \notin seen

\* one invocation of addDependents(dir), called with the call stack stk
addDependents(dir, stk) ==
    /\ seen' = seen \cup {dir}
    /\ visits' = [visits EXCEPT ![dir] = @ + 1]
    /\ IF HasNoDependents(dir)
       THEN /\ stack' = stk
            /\ UNCHANGED workspaceDirsWithDependents
       ELSE LET dirs == MapGet(packageGraph, dir)
            IN  /\ Len(stk) < MaxStack
                /\ workspaceDirsWithDependents' =
                       IF TouchesInitialWorkspace(dirs)
                       THEN SetAdd(workspaceDirsWithDependents, dir)
                       ELSE workspaceDirsWithDependents
                /\ stack' = Append(stk, [dir |-> dir, rest |-> dirs])


-----------------------------------------------------------------------------
(* ConfigurationChief.ts: the per-workspace queries *)

\* workspaceName.startsWith(`${name}/`)
getDescendentWorkspaces(name) ==
    Filter(availableWorkspaceNames,
           {w \in SeqToSet(availableWorkspaceNames) :
               /\ w # name
               /\ (name = ROOT_WORKSPACE_NAME \/ StartsWith(w, name \o <<"/">>))})

\* workspaceName.startsWith(name)
IgnoredUnder(w, name) == StartsWith(w, name)

getIgnoredWorkspacesFor(name) ==
    Filter(ignoredWorkspacePatterns,
           {w \in SeqToSet(ignoredWorkspacePatterns) :
               /\ w # name
               /\ (name = ROOT_WORKSPACE_NAME \/ IgnoredUnder(w, name))})

\* new RegExp(`^${name}/`) matches at the start of str: a "." of name stands
\* for any character, every other character of the model's names for itself
MatchNameMatches(name, str) ==
    /\ Len(str) > Len(name)
    /\ \A i \in 1..Len(name) : name[i] = "." \/ name[i] = str[i]
    /\ str[Len(name) + 1] = "/"

\* workspaceName.replace(matchName, '')
ReplaceMatchName(name, str) ==
    IF MatchNameMatches(name, str) THEN SubSeq(str, Len(name) + 2, Len(str)) ELSE str

getNegatedWorkspacePatterns(name) ==
    LET all == getIgnoredWorkspacesFor(name) \o getDescendentWorkspaces(name)
    IN  [i \in 1..Len(all) |-> <<"!">> \o ReplaceMatchName(name, all[i])]

\* the configured keys, deepest first; the first one that matches, or Undefined
getConfigKeyForWorkspace(workspaceName) ==
    LET keys == Reverse(SortByPathDepth(getConfiguredWorkspaceKeys))
        hits == {i \in 1..Len(keys) : IsMatch(workspaceName, <<keys[i]>>)}
    IN  IF hits = {} THEN Undefined
        ELSE keys[CHOOSE i \in hits : \A j \in hits : i <= j]

\* the config of the whole project, the value of workspaces[key], or {}
TopLevelConfig == [kind |-> "rawConfig", key |-> Undefined]
WorkspacesEntry(key) == [kind |-> "workspaces", key |-> key]
EmptyConfig == [kind |-> "empty", key |-> Undefined]

\* a mutant of RootInWorkspaces: the root never counts as configured
RootInWorkspacesNever == FALSE

\* ROOT_WORKSPACE_NAME in (this.rawConfig?.workspaces ?? {})
RootInWorkspaces ==
    rawConfig.workspaces # Undefined /\ Includes(rawConfig.workspaces, ROOT_WORKSPACE_NAME)

getWorkspaceConfig(workspaceName) ==
    LET key == getConfigKeyForWorkspace(workspaceName)
    IN  IF Truthy(key)
        THEN IF key = ROOT_WORKSPACE_NAME /\ ~RootInWorkspaces
             THEN TopLevelConfig
             ELSE WorkspacesEntry(key)
        ELSE EmptyConfig

-----------------------------------------------------------------------------
(* util/get-included-issue-types.ts *)

\* the fixed taxonomy of issue types
ISSUE_TYPES ==
    <<"files", "dependencies", "devDependencies", "optionalPeerDependencies",
      "unlisted", "binaries", "unresolved", "exports", "nsExports", "types",
      "nsTypes", "enumMembers", "classMembers", "duplicates">>


defaultExcludedIssueTypes == <<"classMembers", "nsExports", "nsTypes">>

defaultIssueTypes ==
    Filter(ISSUE_TYPES,
           {t \in SeqToSet(ISSUE_TYPES) : ~Includes(defaultExcludedIssueTypes, t)})

\* values.flatMap(value => value.split(',')): a value is the list of its
\* comma-separated parts
RECURSIVE normalize(_)
normalize(values) ==
    IF values = <<>> THEN <<>> ELSE Head(values) \o normalize(Tail(values))

\* array.filter(x => !other.includes(x))
Without(array, other) ==
    Filter(array, {x \in SeqToSet(array) : ~Includes(other, x)})

DependenciesBundle ==
    <<"dependencies", "optionalPeerDependencies", "unlisted", "binaries", "unresolved">>
ExportsBundle ==
    <<"exports", "nsExports", "classMembers", "types", "nsTypes", "enumMembers",
      "duplicates">>
FilesBundle == <<"files">>

\* a mutant of HasInvalid: only the first requested name is validated
HasInvalidFirstOnly(types) == Len(types) > 0 /\ ~Includes(ISSUE_TYPES, types[1])

\* for (const type of [...]) if (!ISSUE_TYPES.includes(type)) throw
HasInvalid(types) == \E i \in 1..Len(types) : ~Includes(ISSUE_TYPES, types[i])

\* the first requested type that is not in the taxonomy
FirstInvalid(types) ==
    types[CHOOSE i \in 1..Len(types) :
             /\ ~Includes(ISSUE_TYPES, types[i])
             /\ \A j \in 1..(i - 1) : Includes(ISSUE_TYPES, types[j])]

\* a mutant of ConfigExcludes: the CLI include list does not override the config
ConfigExcludesUnfiltered(exclude, incl) == exclude

\* const excludes = exclude.filter(exclude => !incl.includes(exclude))
ConfigExcludes(exclude, incl) == Without(exclude, incl)

\* const includes = include.filter(include => !excl.includes(include))
ConfigIncludes(include, excl) == Without(include, excl)

\* incl after the convenience flags
CliIncludes(cli) ==
    normalize(cli.include)
    \o (IF cli.dependencies THEN DependenciesBundle ELSE <<>>)
    \o (IF cli.exports THEN ExportsBundle ELSE <<>>)
    \o (IF cli.files THEN FilesBundle ELSE <<>>)

\* a mutant of ProductionExcludes: production mode excludes nothing more
ProductionExcludesNothing(isProduction) == <<>>

\* if (isProduction) _exclude.push('devDependencies')
ProductionExcludes(isProduction) ==
    IF isProduction THEN <<"devDependencies">> ELSE <<>>

\* a mutant of ImpliedByDependencies: only devDependencies follows dependencies
ImpliedByDependenciesDevOnly(list, isProduction) ==
    IF ~isProduction /\ Includes(list, "dependencies")
    THEN <<"devDependencies">> ELSE <<>>

\* if (list.includes('dependencies')) list.push('devDependencies', ...)
ImpliedByDependencies(list, isProduction) ==
    IF ~isProduction /\ Includes(list, "dependencies")
    THEN <<"devDependencies", "optionalPeerDependencies">> ELSE <<>>

\* _include as it stands before `included` is computed
EffectiveInclude(cli, opts) ==
    LET base == CliIncludes(cli) \o ConfigIncludes(opts.include, normalize(cli.exclude))
    IN  base \o ImpliedByDependencies(base, opts.isProduction)

\* _exclude as it stands before `included` is computed
EffectiveExclude(cli, opts) ==
    LET base == normalize(cli.exclude)
                \o ConfigExcludes(opts.exclude, normalize(cli.include))
    IN  base \o ProductionExcludes(opts.isProduction)
             \o ImpliedByDependencies(base, opts.isProduction)

\* a mutant of WithDefaults: the defaults are never layered onto an include list
WithDefaultsNever(include) ==
    IF Len(include) > 0 THEN include ELSE defaultIssueTypes

\* _include.length > 0 ? (_include.some(not excluded by default) ? _include
\*                        : [..._include, ...defaultIssueTypes]) : defaultIssueTypes
WithDefaults(include) ==
    IF Len(include) > 0
    THEN IF \E i \in 1..Len(include) : ~Includes(defaultExcludedIssueTypes, include[i])
         THEN include
         ELSE include \o defaultIssueTypes
    ELSE defaultIssueTypes

\* the result: [error, report], report a boolean for every issue type
getIncludedIssueTypes(cli, opts) ==
    LET requested == normalize(cli.include) \o normalize(cli.exclude)
                     \o opts.include \o opts.exclude
        included == Without(WithDefaults(EffectiveInclude(cli, opts)),
                            EffectiveExclude(cli, opts))
    IN  IF HasInvalid(requested)
        THEN [error |-> ConfigurationError("Invalid issue type", FirstInvalid(requested)),
              report |-> <<>>]
        ELSE [error |-> NoError,
              report |-> [t \in SeqToSet(ISSUE_TYPES) |-> Includes(included, t)]]

\* ConfigurationChief.getIncludedIssueTypes: rules set to 'off' are excludes
ChiefOptions(config, isProduction) ==
    [include |-> config.include,
     exclude |-> config.rulesOff \o config.exclude,
     isProduction |-> isProduction]

-----------------------------------------------------------------------------
(* util/tag.ts *)

\* the characters of the class [a-zA-Z]
Letters ==
    {"a", "b", "c", "d", "e", "f", "g", "h", "i", "j", "k", "l", "m", "n", "o",
     "p", "q", "r", "s", "t", "u", "v", "w", "x", "y", "z",
     "A", "B", "C", "D", "E", "F", "G", "H", "I", "J", "K", "L", "M", "N", "O",
     "P", "Q", "R", "S", "T", "U", "V", "W", "X", "Y", "Z"}

\* String.prototype.split(sep) for a one-character separator: empty parts stay
RECURSIVE Split(_, _)
Split(str, sep) ==
    IF \A i \in 1..Len(str) : str[i] # sep THEN <<str>>
    ELSE LET i == CHOOSE k \in 1..Len(str) :
                      str[k] = sep /\ \A j \in 1..(k - 1) : str[j] # sep
         IN  <<SubSeq(str, 1, i - 1)>> \o Split(SubSeq(str, i + 1, Len(str)), sep)

\* tags.flatMap(tag => tag.split(','))
RECURSIVE FlatMapSplit(_)
FlatMapSplit(values) ==
    IF values = <<>> THEN <<>>
    ELSE Split(Head(values), ",") \o FlatMapSplit(Tail(values))

\* tag.match(/[a-zA-Z]+/) finds something
HasMatch(tag) == \E i \in 1..Len(tag) : tag[i] \in Letters

\* match[0]: the leftmost longest run of letters
Match(tag) ==
    LET first == CHOOSE i \in 1..Len(tag) :
                     tag[i] \in Letters /\ \A j \in 1..(i - 1) : tag[j] \notin Letters
        last == CHOOSE i \in first..Len(tag) :
                    /\ \A j \in first..i : tag[j] \in Letters
                    /\ (i = Len(tag) \/ tag[i + 1] \notin Letters)
    IN  SubSeq(tag, first, last)

\* a mutant of IsNegatedTag: the marker is looked for anywhere in the tag
IsNegatedTagAnywhere(tag) == \E i \in 1..Len(tag) : tag[i] = "-"

\* tag.startsWith('-')
IsNegatedTag(tag) == StartsWith(tag, <<"-">>)

\* the reducer of splitTags, applied to the parts from left to right
RECURSIVE ReduceTags(_, _)
ReduceTags(acc, parts) ==
    IF parts = <<>> THEN acc
    ELSE LET tag == Head(parts)
             next == IF ~HasMatch(tag) THEN acc
                     ELSE IF IsNegatedTag(tag)
                          THEN <<acc[1], Append(acc[2], Match(tag))>>
                          ELSE <<Append(acc[1], Match(tag)), acc[2]>>
         IN  ReduceTags(next, Tail(parts))

splitTags(rawTags) == ReduceTags(<< <<>>, <<>> >>, FlatMapSplit(rawTags))

\* a mutant of hasTag: the tag is looked up without its '@'
hasTagBare(tagList, docTags) ==
    \E i \in 1..Len(tagList) : Includes(docTags, tagList[i])

\* tags.some(tag => jsDocTags.has(`@${tag}`))
hasTag(tagList, docTags) ==
    \E i \in 1..Len(tagList) : Includes(docTags, <<"@">> \o tagList[i])

\* if (Array.isArray(jsDocTags)) jsDocTags = new Set(jsDocTags)
AsSet(docTags) == Dedupe(docTags)

shouldIgnore(docTags, tagLists) ==
    LET set == AsSet(docTags)
        includeJSDocTags == tagLists[1]
        excludeJSDocTags == tagLists[2]
    IN  IF Len(includeJSDocTags) > 0 /\ ~hasTag(includeJSDocTags, set) THEN TRUE
        ELSE IF Len(excludeJSDocTags) > 0 /\ hasTag(excludeJSDocTags, set) THEN TRUE
        ELSE FALSE

-----------------------------------------------------------------------------
(* The state after construction: the inputs of the run, nothing resolved yet *)

PackageJsonsOf(name) ==
    IF name = WsA THEN {Manifest(PkgP, d) : d \in DepLists}
    ELSE IF name = WsAB THEN {Manifest(n, d) : n \in {PkgP, PkgQ}, d \in DepLists}
    ELSE {NoManifest, Manifest(Undefined, <<>>)}
         \cup {Manifest(n, d) : n \in {PkgQ, PkgR}, d \in DepLists}

RootManifests(workspaces) ==
    {[name |-> n, deps |-> d, found |-> TRUE, workspaces |-> workspaces] :
        n \in {Undefined, PkgR}, d \in {<<>>, <<PkgQ>>}}

RawConfigs ==
    {[workspaces |-> w, ignoreWorkspaces |-> i] :
        w \in {Undefined, <<ROOT_WORKSPACE_NAME, WsD>>}, i \in {<<>>, <<WsC>>}}

\* --workspace and --strict as given on the command line
CommandLines ==
    {<<Undefined, FALSE>>, <<<<".", "/">>, FALSE>>, <<WsZ, FALSE>>}
    \cup ({WsA, <<".", "/">> \o WsAB, WsC \o <<"/">>} \X BOOLEAN)

IssueIdle == cliArgs = <<>> /\ options = <<>> /\ report = <<>>

\* the tag filter is not in use
TagIdle == tagArgs = <<>> /\ tags = <<>> /\ jsDocTags = <<>> /\ ignored = FALSE

\* no workspace has been asked about
QueryIdle ==
    queryName = Undefined /\ workspaceConfig = <<>> /\ negatedWorkspacePatterns = <<>>

\* the fields of a ConfigurationChief right after its constructor
Constructed ==
    /\ ignoredWorkspacePatterns = <<>>
    /\ workspacePackages = <<>>
    /\ workspacePackagesByName = <<>>
    /\ additionalWorkspaceNames = <<>>
    /\ availableWorkspaceNames = <<>>
    /\ availableWorkspacePkgNames = <<>>
    /\ availableWorkspaceDirs = <<>>
    /\ packageGraph = <<>>
    /\ includedWorkspaces = <<>>
    /\ seen = {}
    /\ workspaceDirsWithDependents = <<>>
    /\ stack = <<>>
    /\ topIndex = 1
    /\ visits = [d \in AllDirs |-> 0]
    /\ error = NoError

Init ==
    /\ \/ /\ manifest \in RootManifests(WorkspacePatterns)
          /\ packageJsons \in [SeqToSet(DiskWorkspaceDirs) ->
                                  UNION {PackageJsonsOf(n) : n \in SeqToSet(DiskWorkspaceDirs)}]
          /\ \A n \in SeqToSet(DiskWorkspaceDirs) : packageJsons[n] \in PackageJsonsOf(n)
       \/ /\ manifest \in RootManifests(NoWorkspaces)
          /\ packageJsons = [n \in SeqToSet(DiskWorkspaceDirs) |-> NoManifest]
    /\ rawConfig \in RawConfigs
    /\ \E cl \in CommandLines : rawWorkspaceArg = cl[1] /\ isStrict = cl[2]
    /\ Constructed
    /\ pc = "setWorkspaces"
    /\ IssueIdle
    /\ TagIdle
    /\ QueryIdle

inputVars == <<manifest, packageJsons, rawConfig, rawWorkspaceArg, isStrict>>

-----------------------------------------------------------------------------
(* setWorkspaces, statement by statement *)

\* this.ignoredWorkspacePatterns = ...; mapWorkspaces(...)
MapWorkspaces ==
    /\ pc = "setWorkspaces"
    /\ ignoredWorkspacePatterns' = getIgnoredWorkspacePatterns
    /\ LET r == mapWorkspaces(getListedWorkspaces, packageJsons)
       IN  /\ workspacePackages' = r[1]
           /\ workspacePackagesByName' = r[2]
           /\ error' = r[3]
           /\ pc' = IF r[3] = NoError THEN "addRootPackage" ELSE "failed"
    /\ UNCHANGED <<inputVars, additionalWorkspaceNames, availableWorkspaceNames,
                   availableWorkspacePkgNames, availableWorkspaceDirs, packageGraph,
                   includedWorkspaces, walkVars, issueVars, tagVars, queryVars>>

AddRootPackage ==
    /\ pc = "addRootPackage"
    /\ workspacePackages' = MapSet(workspacePackages, ROOT_WORKSPACE_NAME, RootPackage)
    /\ workspacePackagesByName' =
           SetByPkgName(workspacePackagesByName, RootPackage.pkgName, RootPackage)
    /\ pc' = "getAvailableWorkspaceNames"
    /\ UNCHANGED <<inputVars, ignoredWorkspacePatterns, additionalWorkspaceNames,
                   availableWorkspaceNames, availableWorkspacePkgNames,
                   availableWorkspaceDirs, packageGraph, includedWorkspaces,
                   walkVars, error, issueVars, tagVars, queryVars>>

\* additionalWorkspaceNames, then availableWorkspaceNames (byName holds the root)
GetAvailableWorkspaceNames ==
    /\ pc = "getAvailableWorkspaceNames"
    /\ additionalWorkspaceNames' = getAdditionalWorkspaceNames
    /\ availableWorkspaceNames' =
           WithoutIgnored(MapKeys(workspacePackages) \o getAdditionalWorkspaceNames)
    /\ pc' = "getAvailableWorkspacePkgNames"
    /\ UNCHANGED <<inputVars, ignoredWorkspacePatterns, workspacePackages,
                   workspacePackagesByName, availableWorkspacePkgNames,
                   availableWorkspaceDirs, packageGraph, includedWorkspaces,
                   walkVars, error, issueVars, tagVars, queryVars>>

GetAvailableWorkspacePkgNames ==
    /\ pc = "getAvailableWorkspacePkgNames"
    /\ LET r == getAvailableWorkspacePkgNames(MapKeys(workspacePackagesByName))
       IN  /\ availableWorkspacePkgNames' = r[1]
           /\ error' = r[2]
           /\ pc' = IF r[2] = NoError THEN "createPkgGraph" ELSE "failed"
    /\ UNCHANGED <<inputVars, ignoredWorkspacePatterns, workspacePackages,
                   workspacePackagesByName, additionalWorkspaceNames,
                   availableWorkspaceNames, availableWorkspaceDirs, packageGraph,
                   includedWorkspaces, walkVars, issueVars, tagVars, queryVars>>

\* availableWorkspaceNames.sort(byPathDepth).reverse() sorts the array in place;
\* the graph is built from the array as sorted
CreatePkgGraph ==
    /\ pc = "createPkgGraph"
    /\ availableWorkspaceNames' = Reverse(SortByPathDepth(availableWorkspaceNames))
    /\ availableWorkspaceDirs' =
           [i \in 1..Len(availableWorkspaceNames) |->
               Join(Cwd, Reverse(SortByPathDepth(availableWorkspaceNames))[i])]
    /\ packageGraph' = PkgGraphLoop(Reverse(SortByPathDepth(availableWorkspaceNames)), <<>>)
    /\ pc' = "determineIncludedWorkspaces"
    /\ UNCHANGED <<inputVars, ignoredWorkspacePatterns, workspacePackages,
                   workspacePackagesByName, additionalWorkspaceNames,
                   availableWorkspacePkgNames, includedWorkspaces, walkVars, error,
                   issueVars, tagVars, queryVars>>

\* determineIncludedWorkspaces up to the choice of the branch
DetermineIncludedWorkspaces ==
    /\ pc = "determineIncludedWorkspaces"
    /\ \/ /\ Truthy(workspaceArg) /\ ~existsSync(workspaceArg)
          /\ error' = ConfigurationError("Directory does not exist", workspaceArg)
          /\ pc' = "failed"
          /\ UNCHANGED <<includedWorkspaces, walkVars>>
       \/ /\ Truthy(workspaceArg) /\ existsSync(workspaceArg) /\ isStrict
          /\ includedWorkspaces' = ToWorkspaces(StrictScope)
          /\ pc' = "done"
          /\ UNCHANGED <<error, walkVars>>
       \/ /\ Truthy(workspaceArg) /\ existsSync(workspaceArg) /\ ~isStrict
          /\ seen' = {}
          /\ workspaceDirsWithDependents' = InitialDirsWithDependents
          /\ topIndex' = 1
          /\ stack' = <<>>
          /\ pc' = "walk"
          /\ UNCHANGED <<error, includedWorkspaces, visits>>
       \/ /\ ~Truthy(workspaceArg)
          /\ includedWorkspaces' = ToWorkspaces(FullScope)
          /\ pc' = "done"
          /\ UNCHANGED <<error, walkVars>>
    /\ UNCHANGED <<inputVars, ignoredWorkspacePatterns, workspacePackages,
                   workspacePackagesByName, additionalWorkspaceNames,
                   availableWorkspaceNames, availableWorkspacePkgNames,
                   availableWorkspaceDirs, packageGraph, issueVars, tagVars, queryVars>>

walkFrame == <<inputVars, ignoredWorkspacePatterns, workspacePackages,
               workspacePackagesByName, additionalWorkspaceNames,
               availableWorkspaceNames, availableWorkspacePkgNames,
               availableWorkspaceDirs, packageGraph, error, issueVars, tagVars, queryVars>>

\* this.availableWorkspaceDirs.forEach(addDependents): the next top-level call
WalkForEach ==
    /\ pc = "walk" /\ stack = <<>>
    /\ topIndex <= Len(availableWorkspaceDirs)
    /\ addDependents(availableWorkspaceDirs[topIndex], stack)
    /\ topIndex' = topIndex + 1
    /\ UNCHANGED <<pc, includedWorkspaces, walkFrame>>

\* one iteration of the for loop of the innermost running call
WalkLoop ==
    /\ pc = "walk" /\ stack # <<>>
    /\ LET top == stack[Len(stack)]
           popped == SubSeq(stack, 1, Len(stack) - 1)
       IN  /\ top.rest # <<>>
           /\ LET stk == Append(popped, [top EXCEPT !.rest = Tail(top.rest)])
              IN  IF NotSeen(Head(top.rest))
                  THEN addDependents(Head(top.rest), stk)
                  ELSE /\ stack' = stk
                       /\ UNCHANGED <<seen, visits, workspaceDirsWithDependents>>
    /\ UNCHANGED <<pc, topIndex, includedWorkspaces, walkFrame>>

\* the for loop of the innermost call is over: it returns
WalkReturn ==
    /\ pc = "walk" /\ stack # <<>>
    /\ stack[Len(stack)].rest = <<>>
    /\ stack' = SubSeq(stack, 1, Len(stack) - 1)
    /\ UNCHANGED <<pc, seen, visits, workspaceDirsWithDependents, topIndex,
                   includedWorkspaces, walkFrame>>

\* after forEach: ws is filled from workspaceDirsWithDependents, sorted, mapped
WalkEnd ==
    /\ pc = "walk" /\ stack = <<>>
    /\ topIndex > Len(availableWorkspaceDirs)
    /\ includedWorkspaces' = ToWorkspaces(WalkScope)
    /\ pc' = "done"
    /\ UNCHANGED <<walkVars, walkFrame>>

Next ==
    \/ MapWorkspaces
    \/ AddRootPackage
    \/ GetAvailableWorkspaceNames
    \/ GetAvailableWorkspacePkgNames
    \/ CreatePkgGraph
    \/ DetermineIncludedWorkspaces
    \/ WalkForEach
    \/ WalkLoop
    \/ WalkReturn
    \/ WalkEnd

Spec == Init /\ [][Next]_vars


-----------------------------------------------------------------------------
(* The issue-type resolver on its own: a chief of a single-package project is
   asked for the included issue types *)

\* the largest number of types in the CLI include list and in the config
\* exclude list (rules set to 'off' included)
MaxTypes == 2

IssueInputTypes ==
    {"dependencies", "devDependencies", "optionalPeerDependencies", "classMembers"}

TypeSets(n) == {S \in SUBSET IssueInputTypes : Cardinality(S) <= n}
NoneOrOne == {{}} \cup {{t} : t \in IssueInputTypes}

TypeList(S) == Filter(ISSUE_TYPES, S)

\* --include a,b arrives as one comma-separated value
CliValue(S) == IF S = {} THEN <<>> ELSE <<TypeList(S)>>

CliArguments ==
    {[include |-> CliValue(I), exclude |-> CliValue(X),
      dependencies |-> d, exports |-> e, files |-> f] :
        I \in TypeSets(MaxTypes), X \in NoneOrOne, d \in BOOLEAN, e \in BOOLEAN,
        f \in BOOLEAN}

\* config.include, config.exclude, the rules set to 'off', and --production
Configurations ==
    UNION {{[include |-> TypeList(CI), exclude |-> TypeList(CX \ R),
             rulesOff |-> TypeList(R), isProduction |-> p] :
                CI \in NoneOrOne, R \in SUBSET CX, p \in BOOLEAN} :
           CX \in TypeSets(MaxTypes)}

IssueInit ==
    /\ manifest \in {m \in RootManifests(NoWorkspaces) : m.name = Undefined /\ m.deps = <<>>}
    /\ packageJsons = [n \in SeqToSet(DiskWorkspaceDirs) |-> NoManifest]
    /\ rawConfig = [workspaces |-> Undefined, ignoreWorkspaces |-> <<>>]
    /\ rawWorkspaceArg = Undefined
    /\ isStrict = FALSE
    /\ Constructed
    /\ pc = "getIncludedIssueTypes"
    /\ cliArgs \in CliArguments
    /\ options \in Configurations
    /\ report = <<>>
    /\ TagIdle
    /\ QueryIdle

\* ConfigurationChief.getIncludedIssueTypes()
GetIncludedIssueTypes ==
    /\ pc = "getIncludedIssueTypes"
    /\ LET r == getIncludedIssueTypes(cliArgs, ChiefOptions(options, options.isProduction))
       IN  /\ report' = r.report
           /\ error' = r.error
           /\ pc' = IF r.error.kind = "none" THEN "resolved" ELSE "failed"
    /\ UNCHANGED <<chiefVars, walkVars, cliArgs, options, tagVars, queryVars>>

IssueNext == GetIncludedIssueTypes

IssueSpec == IssueInit /\ [][IssueNext]_vars

-----------------------------------------------------------------------------
(* The validation of the requested names: the lists may hold a name that is
   not an issue type *)

\* the largest number of names in the CLI include list and in the config
\* exclude list
MaxNames == 2

RequestedNames == {"dependencies", "classMembers", "bogus"}

NameLists(n) == UNION {[1..k -> RequestedNames] : k \in 0..n}

\* --include a,b (one value) or --include a --include b (one value per name)
CliValues(list) ==
    IF list = <<>> THEN {<<>>}
    ELSE {<<list>>, [i \in 1..Len(list) |-> <<list[i]>>]}

ValidationInit ==
    /\ manifest \in {m \in RootManifests(NoWorkspaces) : m.name = Undefined /\ m.deps = <<>>}
    /\ packageJsons = [n \in SeqToSet(DiskWorkspaceDirs) |-> NoManifest]
    /\ rawConfig = [workspaces |-> Undefined, ignoreWorkspaces |-> <<>>]
    /\ rawWorkspaceArg = Undefined
    /\ isStrict = FALSE
    /\ Constructed
    /\ pc = "getIncludedIssueTypes"
    /\ \E I \in NameLists(MaxNames), X \in NameLists(1) :
           cliArgs \in {[include |-> i, exclude |-> x, dependencies |-> FALSE,
                         exports |-> FALSE, files |-> f] :
                            i \in CliValues(I), x \in CliValues(X), f \in BOOLEAN}
    /\ options \in {[include |-> CI, exclude |-> CX, rulesOff |-> <<>>,
                     isProduction |-> p] :
                        CI \in NameLists(1), CX \in NameLists(MaxNames), p \in BOOLEAN}
    /\ report = <<>>
    /\ TagIdle
    /\ QueryIdle

ValidationSpec == ValidationInit /\ [][IssueNext]_vars

-----------------------------------------------------------------------------
(* The tag filter on its own: the tag expressions are split once, then a
   symbol's JSDoc tags are tested against the two lists *)

\* the largest number of characters of a tag expression
MaxTagLen == 4

TagAlphabet == {"a", "A", "-", ",", " ", "2"}

Strings(n) == UNION {[1..k -> TagAlphabet] : k \in 0..n}

\* one expression, or an expression followed by a short second one
TagExpressions ==
    {<<>>} \cup {<<e>> : e \in Strings(MaxTagLen)}
           \cup {<<e, f>> : e \in Strings(MaxTagLen - 1), f \in Strings(1)}

\* the JSDoc tags of a symbol: a Set, or an array that may repeat a tag
JsDocTagSets ==
    { <<>>, << <<"@", "a">> >>, << <<"@", "A">> >>, << <<"a">> >>,
      << <<"@", "a", "a">> >>, << <<"@", "a">>, <<"@", "A">> >>,
      << <<"@", "A">>, <<"@", "A">> >>, << <<"@", "a", "A">>, <<"@", " ", "a">> >> }

TagInit ==
    /\ manifest \in {m \in RootManifests(NoWorkspaces) : m.name = Undefined /\ m.deps = <<>>}
    /\ packageJsons = [n \in SeqToSet(DiskWorkspaceDirs) |-> NoManifest]
    /\ rawConfig = [workspaces |-> Undefined, ignoreWorkspaces |-> <<>>]
    /\ rawWorkspaceArg = Undefined
    /\ isStrict = FALSE
    /\ Constructed
    /\ IssueIdle
    /\ pc = "splitTags"
    /\ tagArgs \in TagExpressions
    /\ tags = <<>> /\ jsDocTags = <<>> /\ ignored = FALSE
    /\ QueryIdle

\* splitTags(tags)
SplitTags ==
    /\ pc = "splitTags"
    /\ tags' = splitTags(tagArgs)
    /\ pc' = "shouldIgnore"
    /\ UNCHANGED <<chiefVars, walkVars, error, issueVars, tagArgs, jsDocTags, ignored, queryVars>>

\* shouldIgnore(jsDocTags, tags) for the JSDoc tags of one symbol
ShouldIgnore ==
    /\ pc = "shouldIgnore"
    /\ \E docTags \in JsDocTagSets :
           /\ jsDocTags' = docTags
           /\ ignored' = shouldIgnore(docTags, tags)
    /\ pc' = "filtered"
    /\ UNCHANGED <<chiefVars, walkVars, error, issueVars, tagArgs, tags, queryVars>>

TagNext == SplitTags \/ ShouldIgnore

TagSpec == TagInit /\ [][TagNext]_vars

-----------------------------------------------------------------------------
(* A resolved chief is asked about one of its workspaces: the configuration
   varies (configured keys, ignored workspaces, negated manifest patterns), the
   packages on disk are fixed *)

WsAb == <<"a", "b">>

\* every directory has a manifest: a is p, a/b is q and depends on p, c is r
FixedPackageJsons ==
    [n \in SeqToSet(DiskWorkspaceDirs) |->
        IF n = WsA THEN Manifest(PkgP, <<>>)
        ELSE IF n = WsAB THEN Manifest(PkgQ, <<PkgP>>)
        ELSE Manifest(PkgR, <<>>)]

\* package.json#workspaces, without and with a negated pattern
ManifestWorkspaces == {WorkspacePatterns, WorkspacePatterns \o << <<"!">> \o WsC >>}

\* rawConfig.workspaces: absent, empty, with the root, or with other workspaces only
ConfiguredKeys ==
    {Undefined, <<>>, <<ROOT_WORKSPACE_NAME, WsD>>, <<WsD, WsC>>, <<WsA, WsAB>>}

IgnoredWorkspaces == {<<>>, <<WsC>>, <<WsAb>>, <<WsAB>>, <<WsA>>, <<WsD, WsAb>>}

ConfigInit ==
    /\ manifest \in {m \in UNION {RootManifests(w) : w \in ManifestWorkspaces} :
                        m.name = Undefined}
    /\ packageJsons = FixedPackageJsons
    /\ rawConfig \in {[workspaces |-> w, ignoreWorkspaces |-> i] :
                         w \in ConfiguredKeys, i \in IgnoredWorkspaces}
    /\ \E cl \in CommandLines : rawWorkspaceArg = cl[1] /\ isStrict = cl[2]
    /\ Constructed
    /\ pc = "setWorkspaces"
    /\ IssueIdle
    /\ TagIdle
    /\ QueryIdle

\* getWorkspaceConfig(name) for an included workspace
GetWorkspaceConfig ==
    /\ pc = "done"
    /\ \E i \in 1..Len(includedWorkspaces) :
           LET name == includedWorkspaces[i].name
           IN  /\ queryName' = name
               /\ workspaceConfig' = getWorkspaceConfig(name)
    /\ pc' = "getNegatedWorkspacePatterns"
    /\ UNCHANGED <<chiefVars, walkVars, error, issueVars, tagVars,
                   negatedWorkspacePatterns>>

\* getNegatedWorkspacePatterns(name) for the same workspace
GetNegatedWorkspacePatterns ==
    /\ pc = "getNegatedWorkspacePatterns"
    /\ negatedWorkspacePatterns' = getNegatedWorkspacePatterns(queryName)
    /\ pc' = "queried"
    /\ UNCHANGED <<chiefVars, walkVars, error, issueVars, tagVars, queryName,
                   workspaceConfig>>

ConfigNext == Next \/ GetWorkspaceConfig \/ GetNegatedWorkspacePatterns

ConfigSpec == ConfigInit /\ [][ConfigNext]_vars

-----------------------------------------------------------------------------
(* Vocabulary of the properties *)

IncludedNames == [i \in 1..Len(includedWorkspaces) |-> includedWorkspaces[i].name]

HasSelector == Truthy(workspaceArg)

\* the packages discovery finds: matched directories with a manifest, and the root
DiscoveredNames ==
    LET found == FastGlob(Patterns(manifest.workspaces), NegatedPatterns(manifest.workspaces))
    IN  {n \in SeqToSet(found) : packageJsons[n].found} \cup {ROOT_WORKSPACE_NAME}

DeclaredName(n) ==
    IF n = ROOT_WORKSPACE_NAME
    THEN (IF manifest.name = Undefined THEN ROOT_WORKSPACE_NAME ELSE manifest.name)
    ELSE packageJsons[n].name

DuplicatedNames ==
    {DeclaredName(n) : n \in {m \in DiscoveredNames :
        \E o \in DiscoveredNames : o # m /\ DeclaredName(o) = DeclaredName(m)}}

ScopeResolutionReached == pc \in {"determineIncludedWorkspaces", "walk", "done"}

\* the directories the graph records as depending on dir
DirectDependents(dir) ==
    IF MapHas(packageGraph, dir) THEN SeqToSet(MapGet(packageGraph, dir)) ELSE {}

RECURSIVE DependentsClosure(_)
DependentsClosure(S) ==
    LET next == S \cup UNION {DirectDependents(d) : d \in S}
    IN  IF next = S THEN S ELSE DependentsClosure(next)

\* every directory that depends on dir, directly or through a chain
TransitiveDependents(dir) == DependentsClosure(DirectDependents(dir))

GraphIsAcyclic == \A d \in AllDirs : d \notin TransitiveDependents(d)

-----------------------------------------------------------------------------
(* C1: two discovered packages with the same package name make configuration
   resolution fail with a ConfigurationError naming that package name, before
   determineIncludedWorkspaces runs. *)
C1_DuplicateNameIsFatal ==
    DuplicatedNames # {} =>
        /\ ~ScopeResolutionReached
        /\ (pc = "failed" /\ error.kind # "Missing package name" =>
                /\ error.kind = "Duplicate package name"
                /\ error.about \in DuplicatedNames)

(* C2: with a selector and strict=false the included workspaces hold every
   available workspace that depends, directly or transitively, on the selected
   workspace.  Stated for runs in which package names are unique and the
   selector is an available workspace, so that no other defect is involved. *)
C2_AllDependentsIncluded ==
    (/\ pc = "done" /\ HasSelector /\ ~isStrict
     /\ DuplicatedNames = {}
     /\ Includes(availableWorkspaceNames, workspaceArg)) =>
        \A w \in SeqToSet(availableWorkspaceNames) :
            Join(Cwd, w) \in TransitiveDependents(Join(Cwd, workspaceArg))
                => Includes(IncludedNames, w)

(* C3: with a selector and strict=false the included workspaces hold the
   selected workspace, the root, and every available workspace whose name
   followed by "/" is a prefix of the selector. *)
C3_SelectorAndAncestorsIncluded ==
    (pc = "done" /\ HasSelector /\ ~isStrict) =>
        /\ Includes(IncludedNames, workspaceArg)
        /\ Includes(IncludedNames, ROOT_WORKSPACE_NAME)
        /\ \A a \in SeqToSet(availableWorkspaceNames) :
               (a # workspaceArg /\ StartsWith(workspaceArg, a \o <<"/">>))
                   => Includes(IncludedNames, a)

\* a/b selected: the root and a are its ancestors, and a/b has no dependents
C3_Witness ==
    /\ pc = "done" /\ ~isStrict /\ workspaceArg = WsAB
    /\ Includes(availableWorkspaceNames, WsA)
    /\ HasNoDependents(Join(Cwd, WsAB))
    /\ ~MapHas(packageGraph, Join(Cwd, WsD)) /\ Includes(availableWorkspaceNames, WsD)
    /\ {WsAB, WsA, ROOT_WORKSPACE_NAME} \subseteq SeqToSet(IncludedNames)

(* C4: with a selector and strict=true the included workspaces are exactly the
   selected workspace. *)
C4_StrictIsExactlySelector ==
    (pc = "done" /\ HasSelector /\ isStrict) => IncludedNames = <<workspaceArg>>

\* a/b selected in strict mode, with an ancestor and a dependent
C4_Witness ==
    /\ pc = "done" /\ isStrict /\ workspaceArg = WsAB
    /\ Includes(availableWorkspaceNames, WsA)
    /\ DirectDependents(Join(Cwd, WsAB)) # {}
    /\ Len(includedWorkspaces) = 1

\* a variant of the walk: the top-level calls still to make, then the
\* directories not yet seen, then the loop iterations and returns still due
RECURSIVE PendingIterations(_)
PendingIterations(stk) ==
    IF stk = <<>> THEN 0 ELSE Len(Head(stk).rest) + 1 + PendingIterations(Tail(stk))

WalkWeight == Cardinality(AllDirs) + 2

WalkVariant ==
    (Len(availableWorkspaceDirs) + 1 - topIndex) * WalkWeight * WalkWeight
    + Cardinality(AllDirs \ seen) * WalkWeight
    + PendingIterations(stack)

(* C5: the dependents walk terminates for every package graph, cycles and
   missing or empty entries included: every step of the walk that does not end
   it lowers a variant that is a natural number, and the recursion never
   reaches the depth at which the model stops following it. *)
C5_WalkTerminates ==
    [][(pc = "walk" /\ pc' = "walk") =>
          /\ WalkVariant' < WalkVariant
          /\ WalkVariant' >= 0
          /\ Len(stack') < MaxStack]_vars

\* a walk that completed over a graph with a self-loop, a longer cycle, an
\* empty entry and a directory without entry
C5_Witness ==
    /\ pc = "done" /\ HasSelector /\ ~isStrict
    /\ \E d \in AllDirs : d \in DirectDependents(d)
    /\ \E d \in AllDirs : d \in TransitiveDependents(d) /\ d \notin DirectDependents(d)
    /\ \E i \in 1..Len(availableWorkspaceDirs) :
           ~MapHas(packageGraph, availableWorkspaceDirs[i])
    /\ \E i \in 1..Len(packageGraph) : packageGraph[i][2] = <<>>

(* C6: for an acyclic package graph the walk invokes addDependents on each
   directory at most once, top-level and recursive calls together. *)
C6_VisitedAtMostOnce ==
    GraphIsAcyclic => \A d \in AllDirs : visits[d] <= 1

-----------------------------------------------------------------------------
(* Vocabulary of the issue-type properties *)

CliInclude == SeqToSet(normalize(cliArgs.include))
CliExclude == SeqToSet(normalize(cliArgs.exclude))
ConfigInclude == SeqToSet(options.include)
\* the config exclude list as the resolver receives it: rules 'off', then exclude
ConfigExclude == SeqToSet(options.rulesOff) \cup SeqToSet(options.exclude)

Resolved == pc = "resolved"
Reported(t) == report[t]

DependencyFollowers == {"devDependencies", "optionalPeerDependencies"}

\* 'dependencies' is excluded: on the CLI, or by the config and not included on
\* the CLI
DependenciesExcluded ==
    \/ "dependencies" \in CliExclude
    \/ ("dependencies" \in ConfigExclude /\ "dependencies" \notin CliInclude)

(* C7 as stated: for every type T, T in the CLI include list and in the config
   exclude list gives T = true, and T in the CLI exclude list and in the config
   include list gives T = false, whatever else is given. *)
C7_CliAlwaysWins ==
    Resolved =>
        \A t \in SeqToSet(ISSUE_TYPES) :
            /\ (t \in CliInclude /\ t \in ConfigExclude) => Reported(t)
            /\ (t \in CliExclude /\ t \in ConfigInclude) => ~Reported(t)

(* C7 as amended: T in the CLI include list and in the config exclude list gives
   T = true unless T is also in the CLI exclude list, or T is devDependencies in
   production mode, or (outside production mode) T is devDependencies or
   optionalPeerDependencies while 'dependencies' is excluded; T in the CLI
   exclude list and in the config include list gives T = false. *)
C7_CliWinsOverConfig ==
    Resolved =>
        \A t \in SeqToSet(ISSUE_TYPES) :
            /\ (/\ t \in CliInclude /\ t \in ConfigExclude
                /\ t \notin CliExclude
                /\ ~(options.isProduction /\ t = "devDependencies")
                /\ ~(~options.isProduction /\ t \in DependencyFollowers
                        /\ DependenciesExcluded))
                   => Reported(t)
            /\ (t \in CliExclude /\ t \in ConfigInclude) => ~Reported(t)

\* a type included on the CLI against a rule set to 'off', and another excluded
\* on the CLI against the config include list
C7_Witness ==
    /\ Resolved
    /\ \E t \in CliInclude : t \in SeqToSet(options.rulesOff) /\ Reported(t)
    /\ \E t \in CliExclude : t \in ConfigInclude /\ ~Reported(t)

(* C8: in production mode devDependencies is false in the result, whatever the
   CLI lists, the convenience flags and the config lists are. *)
C8_ProductionDropsDevDependencies ==
    (Resolved /\ options.isProduction) => ~Reported("devDependencies")

\* production mode with devDependencies included on the CLI
C8_Witness ==
    /\ Resolved /\ options.isProduction
    /\ "devDependencies" \in CliInclude /\ CliExclude = {} /\ ConfigExclude = {}
    /\ ~Reported("devDependencies")
    /\ cliArgs.dependencies /\ Reported("dependencies")

\* a list with devDependencies and optionalPeerDependencies written out next to
\* 'dependencies'
WrittenOut(list) ==
    IF Includes(list, "dependencies")
    THEN list \o <<"devDependencies", "optionalPeerDependencies">>
    ELSE list

\* the same call with every list that names 'dependencies' written out
WrittenOutReport ==
    getIncludedIssueTypes(
        [cliArgs EXCEPT !.include = <<WrittenOut(normalize(cliArgs.include))>>,
                        !.exclude = <<WrittenOut(normalize(cliArgs.exclude))>>],
        [include |-> WrittenOut(options.include),
         exclude |-> WrittenOut(options.rulesOff \o options.exclude),
         isProduction |-> options.isProduction]).report

\* the CLI includes 'dependencies' and the config excludes one of its followers
\* that the CLI does not include by name
FollowerExcludedByConfig(t) ==
    /\ "dependencies" \in CliInclude
    /\ t \in DependencyFollowers
    /\ t \in ConfigExclude /\ t \notin CliInclude

\* the CLI excludes 'dependencies' and the config includes one of its followers
\* that the CLI does not exclude by name
FollowerIncludedByConfig(t) ==
    /\ "dependencies" \in CliExclude
    /\ t \in DependencyFollowers
    /\ t \in ConfigInclude /\ t \notin CliExclude

(* C9 as stated: outside production mode the result equals the result of the
   same call with devDependencies and optionalPeerDependencies written out next
   to 'dependencies' in every list that names it. *)
C9_ImplicitEqualsExplicit ==
    (Resolved /\ ~options.isProduction) => report = WrittenOutReport

(* C9 as amended: outside production mode the result equals the written-out
   result, provided the config does not name a follower of 'dependencies'
   against the CLI's choice for 'dependencies' (the config excludes a follower
   while the CLI includes 'dependencies' without naming the follower, or the
   config includes a follower while the CLI excludes 'dependencies' without
   naming the follower); in both of those cases the follower is false in the
   result. *)
C9_ImplicitFollowsDependencies ==
    (Resolved /\ ~options.isProduction) =>
        /\ (\A t \in DependencyFollowers :
                ~FollowerExcludedByConfig(t) /\ ~FollowerIncludedByConfig(t))
               => report = WrittenOutReport
        /\ \A t \in DependencyFollowers :
               (FollowerExcludedByConfig(t) \/ FollowerIncludedByConfig(t))
                   => ~Reported(t)

\* 'dependencies' alone in the config include list brings both followers in
C9_Witness ==
    /\ Resolved /\ ~options.isProduction
    /\ ConfigInclude = {"dependencies"} /\ CliInclude = {} /\ CliExclude = {}
    /\ ConfigExclude = {}
    /\ ~cliArgs.dependencies /\ ~cliArgs.exports /\ ~cliArgs.files
    /\ Reported("devDependencies") /\ Reported("optionalPeerDependencies")
    /\ ~Reported("files")

NormallyExcluded == {"classMembers", "nsExports", "nsTypes"}
DefaultSet == SeqToSet(ISSUE_TYPES) \ NormallyExcluded

IncludedByCaller == SeqToSet(EffectiveInclude(cliArgs, ChiefOptions(options, options.isProduction)))
ExcludedByCaller == SeqToSet(EffectiveExclude(cliArgs, ChiefOptions(options, options.isProduction)))

(* C10 as stated: with an empty effective include list the reported types are
   the default set minus the excluded types; and whenever a normally-excluded
   type is included, the default set is reported alongside it (minus the
   excluded types), whether or not other types are included too. *)
C10_DefaultsAlwaysLayered ==
    Resolved =>
        /\ IncludedByCaller = {} =>
               \A t \in SeqToSet(ISSUE_TYPES) :
                   Reported(t) = (t \in DefaultSet \ ExcludedByCaller)
        /\ IncludedByCaller \cap NormallyExcluded # {} =>
               \A t \in DefaultSet \ ExcludedByCaller : Reported(t)

(* C10 as amended: with an empty effective include list the reported types are
   the default set minus the excluded types; when the include list is not empty
   and holds only normally-excluded types, the reported types are those types
   and the default set, minus the excluded types; when it holds any other type,
   the reported types are exactly the included types minus the excluded ones. *)
C10_DefaultsLayeredOnlyAlone ==
    Resolved =>
        \A t \in SeqToSet(ISSUE_TYPES) :
            Reported(t) =
                /\ t \notin ExcludedByCaller
                /\ IF IncludedByCaller = {} THEN t \in DefaultSet
                   ELSE IF IncludedByCaller \subseteq NormallyExcluded
                        THEN t \in DefaultSet \cup IncludedByCaller
                        ELSE t \in IncludedByCaller

\* classMembers alone is included: the defaults come along
C10_Witness ==
    /\ Resolved
    /\ IncludedByCaller = {"classMembers"}
    /\ Reported("classMembers") /\ Reported("files") /\ Reported("exports")
    /\ ~Reported("nsTypes")

\* some requested name is not an issue type of the taxonomy
SomeNameInvalid ==
    \E n \in CliInclude \cup CliExclude \cup ConfigInclude \cup ConfigExclude :
        n \notin SeqToSet(ISSUE_TYPES)

(* C11: getIncludedIssueTypes fails with a ConfigurationError and returns no
   map whenever a requested name (comma-split CLI include or exclude, config
   include or exclude) is not an issue type; when every name is valid it returns
   a map with a boolean entry for every issue type. *)
C11_InvalidTypeIsFatal ==
    (pc \in {"resolved", "failed"}) =>
        /\ (pc = "failed") <=> SomeNameInvalid
        /\ (pc = "failed") =>
               error.kind = "Invalid issue type" /\ report = <<>>
        /\ (pc = "resolved") =>
               /\ error = NoError
               /\ DOMAIN report = SeqToSet(ISSUE_TYPES)
               /\ \A t \in SeqToSet(ISSUE_TYPES) : report[t] \in BOOLEAN

\* the only invalid name is the last name of the config exclude list
C11_Witness ==
    /\ pc = "failed"
    /\ "bogus" \notin CliInclude \cup CliExclude \cup ConfigInclude
    /\ CliInclude # {}
    /\ options.exclude = <<"classMembers", "bogus">>
    /\ error.about = "bogus"

-----------------------------------------------------------------------------
(* Vocabulary of the tag properties *)

TagsSplit == pc \in {"shouldIgnore", "filtered"}

\* a list of tags has one that the symbol carries, written with its '@'
Carries(tagList) ==
    \E t \in SeqToSet(tagList) : (<<"@">> \o t) \in SeqToSet(jsDocTags)

(* C12: shouldIgnore(jsDocTags, [include, exclude]) is true exactly when
   (include is not empty and no tag t of include has '@'+t in jsDocTags) or
   (exclude is not empty and some tag t of exclude has '@'+t in jsDocTags);
   with both lists empty it is false. Matching is exact and case-sensitive. *)
C12_ShouldIgnoreExactly ==
    (pc = "filtered") =>
        /\ ignored <=> \/ (tags[1] # <<>> /\ ~Carries(tags[1]))
                       \/ (tags[2] # <<>> /\ Carries(tags[2]))
        /\ (tags[1] = <<>> /\ tags[2] = <<>>) => ~ignored

\* include [a], the symbol carries @A only: the case differs, so it is ignored
C12_Witness ==
    /\ pc = "filtered"
    /\ tags = << << <<"a">> >>, <<>> >>
    /\ jsDocTags = << <<"@", "A">> >>
    /\ ignored

IsTagName(str) == str # <<>> /\ \A i \in 1..Len(str) : str[i] \in Letters
\* a tag name, or a tag name behind the negation marker
IsTagToken(str) ==
    IsTagName(str) \/ (str # <<>> /\ Head(str) = "-" /\ IsTagName(Tail(str)))
NotEmpty(str) == str # <<>>
Negated(str) == str # <<>> /\ Head(str) = "-"
NotNegated(str) == ~Negated(str)
StripMarker(list) == [i \in 1..Len(list) |-> Tail(list[i])]

RECURSIVE SplitEach(_, _)
SplitEach(list, sep) ==
    IF list = <<>> THEN <<>> ELSE Split(Head(list), sep) \o SplitEach(Tail(list), sep)

\* the expressions cut at every comma
CommaParts == SplitEach(tagArgs, ",")
\* the expressions cut at every comma and every space, empty pieces dropped
Tokens == SelectSeq(SplitEach(CommaParts, " "), NotEmpty)

(* C13 as stated: the expressions are split on commas and on spaces, a tag
   behind '-' goes to the exclude list without the marker and any other tag to
   the include list, in order of appearance, and no tag is lost (stated for
   expressions whose every piece is a tag name or '-' and a tag name). *)
C13_SplitsOnCommasAndSpaces ==
    (TagsSplit /\ \A i \in 1..Len(Tokens) : IsTagToken(Tokens[i])) =>
        tags = <<SelectSeq(Tokens, NotNegated), StripMarker(SelectSeq(Tokens, Negated))>>

(* C13 as amended: the expressions are split on commas only. Every part that
   holds a letter yields exactly one tag, made of letters only, and a part
   without a letter yields none; the tag goes to the exclude list exactly when
   its part starts with '-'. When every part is a tag name or '-' and a tag
   name, a tag behind '-' goes to the exclude list without the marker and any
   other tag to the include list, whole and in order of appearance. *)
C13_SplitsOnCommasOnly ==
    TagsSplit =>
        /\ Len(tags[1]) + Len(tags[2]) =
               Cardinality({i \in 1..Len(CommaParts) : HasMatch(CommaParts[i])})
        /\ \A k \in 1..2 : \A i \in 1..Len(tags[k]) : IsTagName(tags[k][i])
        /\ Len(tags[2]) =
               Cardinality({i \in 1..Len(CommaParts) :
                               HasMatch(CommaParts[i]) /\ Negated(CommaParts[i])})
        /\ (\A i \in 1..Len(CommaParts) : IsTagToken(CommaParts[i])) =>
               tags = <<SelectSeq(CommaParts, NotNegated),
                        StripMarker(SelectSeq(CommaParts, Negated))>>

\* "-A," and "a": include [a], exclude [A]
C13_Witness ==
    /\ TagsSplit
    /\ tagArgs = << <<"-", "A", ",">>, <<"a">> >>
    /\ tags = << << <<"a">> >>, << <<"A">> >> >>

-----------------------------------------------------------------------------
(* Vocabulary of the per-workspace query properties *)

\* getWorkspaceConfig(queryName) has returned
ConfigReturned == pc \in {"getNegatedWorkspacePatterns", "queried"}

HasWorkspacesMap == rawConfig.workspaces # Undefined
\* the raw config has an explicit workspaces.<root> key
HasRootKey == HasWorkspacesMap /\ ROOT_WORKSPACE_NAME \in SeqToSet(rawConfig.workspaces)
\* the 'workspaces' map has keys
ListsOtherWorkspaces == HasWorkspacesMap /\ rawConfig.workspaces # <<>>
RootIsIgnored == ROOT_WORKSPACE_NAME \in SeqToSet(rawConfig.ignoreWorkspaces)
\* no configured key is the name (the keys of the model are plain directories)
MatchedByNoKey(name) == name \notin SeqToSet(getConfiguredWorkspaceKeys)

(* C14 as stated: getWorkspaceConfig(root) is the top-level config object
   whenever the raw config has no explicit workspaces.<root> key, with no
   'workspaces' map at all and with a map that lists only other workspaces; a
   name matched by no configured key gets an empty object. *)
C14_RootConfigIsTopLevel ==
    ConfigReturned =>
        /\ (/\ queryName = ROOT_WORKSPACE_NAME /\ ~RootIsIgnored
            /\ (~HasWorkspacesMap \/ (ListsOtherWorkspaces /\ ~HasRootKey)))
               => workspaceConfig = TopLevelConfig
        /\ (queryName # ROOT_WORKSPACE_NAME /\ MatchedByNoKey(queryName))
               => workspaceConfig = EmptyConfig

(* C14 as amended: getWorkspaceConfig(root) is the top-level config object
   when the raw config has no 'workspaces' map at all (and the root is not in
   ignoreWorkspaces); when the raw config has a 'workspaces' map without a root
   key, also one that lists only other workspaces, it is an empty object, and
   with a root key it is the value of that key; a name matched by no configured
   key gets an empty object. *)
C14_RootConfigWithoutMap ==
    ConfigReturned =>
        /\ (queryName = ROOT_WORKSPACE_NAME /\ ~HasWorkspacesMap /\ ~RootIsIgnored)
               => workspaceConfig = TopLevelConfig
        /\ (queryName = ROOT_WORKSPACE_NAME /\ HasWorkspacesMap /\ ~HasRootKey)
               => workspaceConfig = EmptyConfig
        /\ (queryName = ROOT_WORKSPACE_NAME /\ HasRootKey /\ ~RootIsIgnored)
               => workspaceConfig = WorkspacesEntry(ROOT_WORKSPACE_NAME)
        /\ MatchedByNoKey(queryName) => workspaceConfig = EmptyConfig

\* the root is asked about, once without a workspaces map ...
C14_Witness ==
    /\ ConfigReturned
    /\ queryName = ROOT_WORKSPACE_NAME
    /\ ~HasWorkspacesMap
    /\ workspaceConfig = TopLevelConfig
    /\ Len(includedWorkspaces) > 1

\* determineIncludedWorkspaces has returned
ScopeChosen == pc \in {"done", "getNegatedWorkspacePatterns", "queried"}

\* the name matches an ignored-workspace pattern (a config ignoreWorkspaces
\* entry or a negated manifest pattern; the patterns of the model are literal)
IsIgnoredName(name) ==
    \/ name \in SeqToSet(rawConfig.ignoreWorkspaces)
    \/ (<<"!">> \o name) \in SeqToSet(manifest.workspaces)

\* the candidates: the discovered packages and the configured directories
CandidateNames == SeqToSet(MapKeys(workspacePackages)) \cup SeqToSet(additionalWorkspaceNames)

(* C15 as stated: in every mode no workspace of getIncludedWorkspaces() has a
   name matching an ignored-workspace pattern, and with no selector the result
   is exactly the available, non-ignored workspace names. *)
C15_NoIgnoredWorkspaceIncluded ==
    ScopeChosen =>
        /\ \A n \in SeqToSet(IncludedNames) : ~IsIgnoredName(n)
        /\ ~HasSelector =>
               SeqToSet(IncludedNames) = {n \in CandidateNames : ~IsIgnoredName(n)}

(* C15 as amended: no workspace of getIncludedWorkspaces() other than the
   selector itself has a name matching an ignored-workspace pattern; the
   selector is returned, with and without strict, also when it matches one; and
   with no selector the result is exactly the available, non-ignored names. *)
C15_OnlySelectorMayBeIgnored ==
    ScopeChosen =>
        /\ \A n \in SeqToSet(IncludedNames) : n # workspaceArg => ~IsIgnoredName(n)
        /\ HasSelector => workspaceArg \in SeqToSet(IncludedNames)
        /\ ~HasSelector =>
               SeqToSet(IncludedNames) = {n \in CandidateNames : ~IsIgnoredName(n)}

\* no selector: c is discovered, ignored, and not in the result
C15_Witness ==
    /\ ScopeChosen
    /\ ~HasSelector
    /\ WsC \in CandidateNames /\ IsIgnoredName(WsC)
    /\ WsC \notin SeqToSet(IncludedNames)
    /\ WsA \in SeqToSet(IncludedNames)

\* w is inside the workspace name: below its directory, or anywhere for the root
IsInside(w, name) ==
    w # name /\ (name = ROOT_WORKSPACE_NAME \/ StartsWith(w, name \o <<"/">>))

\* w as seen from name: without the 'name/' prefix, unchanged for the root
RelativeTo(name, w) ==
    IF name = ROOT_WORKSPACE_NAME THEN w ELSE SubSeq(w, Len(name) + 2, Len(w))

(* C16: getNegatedWorkspacePatterns(name) returns one '!'-prefixed pattern for
   each descendant workspace of name and each ignored workspace path under
   name, and nothing else; for a non-root name the 'name/' prefix is stripped,
   for the root the pattern is '!' and the unchanged name or ignore pattern; a
   path that only shares a string prefix with name produces no pattern. *)
C16_NegatedPatternsOfDescendants ==
    (pc = "queried") =>
        SeqToSet(negatedWorkspacePatterns) =
            {<<"!">> \o RelativeTo(queryName, w) :
                w \in {x \in SeqToSet(availableWorkspaceNames)
                                \cup SeqToSet(ignoredWorkspacePatterns) :
                          IsInside(x, queryName)}}

=============================================================================
